---- MODULE Spec2Model ----
(***************************************************************************)
(* Model of src/forwarder.py: the relay handler (message_handler,          *)
(* forward_signal, contains_signal), the supervisor loop main() run by     *)
(* run_bot() on the bot thread, the module-level configuration check, the  *)
(* main thread of the __main__ block and the Flask status routes.          *)
(*                                                                         *)
(* Python values: None is the empty tuple <<>> and a present value v is    *)
(* the one-element tuple <<v>>, so that "x or y" and "if not x" can be     *)
(* computed as Python computes them.  Texts are TLA+ strings; the emoji of *)
(* the source's literals are left out of the string constants.             *)
(*                                                                         *)
(* main() calls heartbeat(application) and memory_cleaner() (lines 164 and *)
(* 165); src/forwarder.py neither defines nor imports these names, so the  *)
(* file as it stands raises NameError there in every cycle.  The variable  *)
(* helpers_bound is fixed in the initial state: FALSE is the file as it    *)
(* stands, TRUE a module namespace in which both names are bound to        *)
(* coroutine functions without effect on the state modelled here, which    *)
(* is the only way lines 167-173 are ever executed.                        *)
(*                                                                         *)
(* The transport (python-telegram-bot) is outside the source: each of its  *)
(* awaited calls returns or raises, at most MaxFatal times in a run.       *)
(* main() is cancelled only from outside; a cancellation is delivered at   *)
(* the await where the coroutine is suspended.                             *)
(***************************************************************************)
EXTENDS Integers, Sequences, FiniteSets, TLC

(***************************************************************************)
(* Bounds of the model.                                                    *)
(***************************************************************************)
\* how many failures the transport may inject (the N of "N fatal errors")
MaxFatal == 2
\* how many HTTP requests the status surface serves
MaxRequests == 2
\* the restart counter stops counting here (the loop itself never stops)
MaxRestarts == 2
\* how many updates the transport delivers in a run
MaxUpdates == 2

(***************************************************************************)
(* Python helpers.                                                         *)
(***************************************************************************)
None == <<>>
Some(v) == <<v>>
IsNone(x) == x = <<>>
Val(x) == x[1]

\* bool(x) of an optional string: None and '' are falsy
Truthy(x) == ~IsNone(x) /\ Val(x) # ""

\* all([a, b, c]) over optional strings
All3(a, b, c) == Truthy(a) /\ Truthy(b) /\ Truthy(c)

\* "a or b": a when a is truthy, else b
PyOr(a, b) == IF Truthy(a) THEN a ELSE b

Digit(d) == SubSeq("0123456789", d + 1, d + 1)

RECURSIVE NatStr(_)
NatStr(n) == IF n < 10 THEN Digit(n) ELSE NatStr(n \div 10) \o Digit(n % 10)

\* str(i) of a Python int
Str(i) == IF i < 0 THEN "-" \o NatStr(0 - i) ELSE NatStr(i)

\* s[:n]
Prefix(s, n) == SubSeq(s, 1, IF Len(s) < n THEN Len(s) ELSE n)

UpperCase == "ABCDEFGHIJKLMNOPQRSTUVWXYZ"
LowerCase == "abcdefghijklmnopqrstuvwxyz"

\* case folding of one ASCII character, as re.IGNORECASE compares it
FoldChar(c) ==
    IF \E i \in 1..26 : SubSeq(UpperCase, i, i) = c
    THEN LET i == CHOOSE k \in 1..26 : SubSeq(UpperCase, k, k) = c
         IN  SubSeq(LowerCase, i, i)
    ELSE c

RECURSIVE Fold(_)
Fold(s) ==
    IF Len(s) = 0 THEN ""
    ELSE IF Len(s) = 1 THEN FoldChar(s)
    ELSE LET h == Len(s) \div 2
         IN  Fold(SubSeq(s, 1, h)) \o Fold(SubSeq(s, h + 1, Len(s)))

\* the literal lit (already folded) occurs in the folded text s at position i
LitAt(s, lit, i) ==
    /\ i >= 1
    /\ i + Len(lit) - 1 <= Len(s)
    /\ SubSeq(s, i, i + Len(lit) - 1) = lit

\* "." does not match a newline (no re.DOTALL): s[i..j-1] holds no "\n"
GapOk(s, i, j) == \A k \in i..(j - 1) : SubSeq(s, k, k) # "\n"

(***************************************************************************)
(* SIGNAL_PATTERNS.  A pattern is a sequence of parts joined by ".*"; a    *)
(* part is the set of literals its alternation (BUY|SELL) expands to.      *)
(***************************************************************************)
SIGNAL_PATTERNS ==
    << << {"Boom 1000 Index BUY Signal"} >>,
       << {"Crash 1000 Index BUY Signal"} >>,
       << {"Boom 1000 Index SELL Signal"} >>,
       << {"Crash 1000 Index SELL Signal"} >>,
       << {"Boom 500 Index BUY Signal", "Boom 500 Index SELL Signal"} >>,
       << {"NO TRADE ALERT"} >>,
       << {"Volatility"}, {"Index"}, {"BUY Signal", "SELL Signal"} >> >>

\* re.compile(..., re.IGNORECASE): the patterns with their literals folded
Compiled ==
    [n \in DOMAIN SIGNAL_PATTERNS |->
        [k \in DOMAIN SIGNAL_PATTERNS[n] |-> {Fold(lit) : lit \in SIGNAL_PATTERNS[n][k]}]]

\* parts k..Len(p) of the compiled pattern p match the folded text s starting
\* exactly at position i
RECURSIVE MatchFrom(_, _, _, _)
MatchFrom(s, p, k, i) ==
    \E lit \in p[k] :
        /\ LitAt(s, lit, i)
        /\ \/ k = Len(p)
           \/ \E j \in (i + Len(lit))..(Len(s) + 1) :
                  /\ GapOk(s, i + Len(lit), j)
                  /\ MatchFrom(s, p, k + 1, j)

\* as Search, comparing the letters of the text as they are
SearchCaseSensitive(p, text) == \E i \in 1..Len(text) : MatchFrom(text, p, 1, i)

\* pattern.search(text): the pattern matches somewhere in the text
Search(p, text) == LET s == Fold(text) IN \E i \in 1..Len(s) : MatchFrom(s, p, 1, i)

\* contains_signal(text), text a Python str
contains_signal(text) ==
    IF Len(text) = 0 THEN FALSE
    ELSE \E n \in DOMAIN Compiled : Search(Compiled[n], text)

(***************************************************************************)
(* The texts and updates the transport delivers in this model.             *)
(***************************************************************************)
LongText ==
    "Weekly recap: markets were quiet for most of the session and spreads stayed tight until the close; then came a Crash 1000 Index SELL Signal"

Texts ==
    { "",
      "Boom 1000 Index BUY Signal",
      "just chatting",
      "NO TRADE ALERT",
      "fyi: no trade alert today",
      "Volatility 75 Index - SELL Signal",
      "Volatility 75\nIndex SELL Signal",
      "Boom 500 Index HOLD Signal",
      LongText }

\* contains_signal over Texts, computed once
SignalTable == [t \in Texts |-> contains_signal(t)]

\* contains_signal(text) for the texts of this model, read from the table
signal(text) == SignalTable[text]

\* the texts contains_signal is studied on: Texts and other letter-casings
MatcherTexts ==
    Texts \cup { "bOOM 500 iNDEX sell SIGNAL",
                 "crash 1000 index buy signal",
                 "VOLATILITY 10 (1s) index: buy signal now",
                 "Volatility Index BUY\nSignal",
                 "Index Volatility SELL Signal" }

\* pattern.search(text) for every pattern and every text of MatcherTexts,
\* computed once
SearchTable ==
    [n \in DOMAIN Compiled |-> [t \in MatcherTexts |-> Search(Compiled[n], t)]]

\* any(pattern.search(text) for pattern in patterns): the patterns are tried
\* in the order of the list, from the k-th on, up to the first that matches
RECURSIVE AnySearch(_, _, _)
AnySearch(order, k, text) ==
    IF k > Len(order) THEN FALSE
    ELSE IF SearchTable[order[k]][text] THEN TRUE
    ELSE AnySearch(order, k + 1, text)

\* contains_signal(text) with SIGNAL_PATTERNS listed in the given order;
\* text is None or Some(str)
contains_signal_in(order, text) ==
    IF ~Truthy(text) THEN FALSE ELSE AnySearch(order, 1, Val(text))

\* the orders in which the patterns of SIGNAL_PATTERNS can be listed
PatternOrders ==
    { o \in [DOMAIN SIGNAL_PATTERNS -> DOMAIN SIGNAL_PATTERNS] :
        \A a, b \in DOMAIN SIGNAL_PATTERNS : o[a] = o[b] => a = b }

\* the order of the source, lines 49-55
SourceOrder == [n \in DOMAIN SIGNAL_PATTERNS |-> n]

\* the arguments contains_signal is studied on
MatcherInputs ==
    [order : PatternOrders, text : {None} \cup {Some(t) : t \in MatcherTexts}]

\* f"... TRADING SIGNAL ...\n\n" and "\n\n... Time: " of forward_signal's f-string
TRADING_SIGNAL == "TRADING SIGNAL\n\n"
TIME_LABEL == "\n\nTime: "

\* datetime.now().strftime('%Y-%m-%d %H:%M:%S')
Clock == {"2024-05-01 09:30:00"}

\* update.effective_chat.id
ChatIds == {0 - 1001, 0 - 1002, 1001}

OptText == {None} \cup {Some(t) : t \in Texts}

\* the captions of the delivered messages
OptCaption == {None, Some(""), Some("NO TRADE ALERT"), Some("just chatting")}

\* update.message: None, or a message with an optional text and caption
Messages == {None} \cup {Some([text |-> t, caption |-> c]) : t \in OptText, c \in OptCaption}

\* an Update as message_handler reads it
Updates ==
    [effective_chat : {None} \cup {Some([id |-> i]) : i \in ChatIds}, message : Messages]

\* what awaiting context.bot.send_message does: it returns, or raises a
\* telegram.error.TelegramError (an Exception)
SendResults == {"ok", "TelegramError"}

\* exception classes: CancelledError derives from BaseException, the others
\* from Exception; "none" is no exception
IsException(kind) == kind \in {"TelegramError", "AttributeError", "NameError", "RuntimeError"}

(***************************************************************************)
(* State.                                                                  *)
(***************************************************************************)
VARIABLES
    BOT_TOKEN,          \* os.environ.get('BOT_TOKEN'): None or a string
    SOURCE_GROUP_ID,    \* os.environ.get('SOURCE_GROUP_ID')
    TARGET_CHANNEL_ID,  \* os.environ.get('TARGET_CHANNEL_ID')
    helpers_bound,      \* whether the names heartbeat and memory_cleaner are bound
    mpc,                \* position of the main thread
    exit_code,          \* exit status of the process, None while it runs
    flask_up,           \* the Flask thread serves requests
    requests,           \* number of requests served
    response,           \* the last JSON response of the status surface
    pc,                 \* position of the bot thread (run_bot / main)
    bot_running,        \* the global bot_running
    application,        \* main()'s local: None or the Application's state
    exit_mode,          \* how the finally block was entered
    handshake,          \* the awaits of the try body completed in this cycle
    restarts,           \* times the outer loop came round again
    fatal_left,         \* failures the transport may still inject
    cancelled,          \* main() has been cancelled
    log,                \* kinds of records the supervisor has logged
    last,               \* None or the last handled update with what it caused
    delivered,          \* number of updates handed to message_handler
    outbox,             \* the updates (by number) that caused a send, in send order
    notifications,      \* startup notifications sent by test_channel_access
    m_in,               \* contains_signal under study: None or its arguments
    m_out               \* None or the value contains_signal returned

config == <<BOT_TOKEN, SOURCE_GROUP_ID, TARGET_CHANNEL_ID, helpers_bound>>
mainvars == <<mpc, exit_code>>
flaskvars == <<flask_up, requests, response>>
supvars == <<pc, application, exit_mode, handshake, restarts, fatal_left, cancelled, log>>
relay == <<last, delivered, outbox, notifications>>
matcher == <<m_in, m_out>>
vars == <<config, mainvars, flaskvars, supvars, bot_running, relay, matcher>>

(***************************************************************************)
(* Relay handler.                                                          *)
(***************************************************************************)
\* the result of running a piece of handler code: the sends it attempted, what
\* it logged, and the exception it ends with ("none" when it returns)
Result(sends, logs, exc) == [sends |-> sends, logs |-> logs, exc |-> exc]

\* as ForwardBody, with the payload cut like the log line
ForwardBodyTruncated(message_text, now, result) ==
    LET formatted_message == TRADING_SIGNAL \o Prefix(message_text, 50) \o TIME_LABEL \o now
        send == [chat_id |-> Val(TARGET_CHANNEL_ID), text |-> formatted_message]
    IN  IF result = "ok"
        THEN Result(<<send>>, <<"Signal forwarded successfully: " \o Prefix(message_text, 50)>>, "none")
        ELSE Result(<<send>>, <<>>, result)

\* forward_signal's try body (lines 96-107)
ForwardBody(message_text, now, result) ==
    LET formatted_message == TRADING_SIGNAL \o message_text \o TIME_LABEL \o now
        send == [chat_id |-> Val(TARGET_CHANNEL_ID), text |-> formatted_message]
    IN  IF result = "ok"
        THEN Result(<<send>>, <<"Signal forwarded successfully: " \o Prefix(message_text, 50)>>, "none")
        ELSE Result(<<send>>, <<>>, result)

\* try: ... except Exception as error: logger.error(msg)
CatchException(r, msg) ==
    IF IsException(r.exc) THEN Result(r.sends, Append(r.logs, msg), "none") ELSE r

\* as forward_signal, sending once more when the send raised
forward_signal_retry(message_text, now, result) ==
    LET r == ForwardBody(message_text, now, result)
    IN  IF IsException(r.exc)
        THEN Result(r.sends \o r.sends, Append(r.logs, "Error forwarding signal"), "none")
        ELSE r

forward_signal(message_text, now, result) ==
    CatchException(ForwardBody(message_text, now, result), "Error forwarding signal")

\* as HandlerBody, without the source-chat test of lines 114-115
HandlerBodyUnfiltered(update, now, result) ==
    IF IsNone(update.effective_chat)
    THEN Result(<<>>, <<>>, "AttributeError")
    ELSE IF IsNone(update.message)
    THEN Result(<<>>, <<>>, "AttributeError")
    ELSE LET m == Val(update.message)
             message_text == Val(PyOr(PyOr(m.text, m.caption), Some("")))
         IN  IF signal(message_text)
             THEN LET f == forward_signal(message_text, now, result)
                      detected == "Trading signal detected: " \o Prefix(message_text, 100)
                  IN  Result(f.sends, <<detected>> \o f.logs, f.exc)
             ELSE Result(<<>>, <<>>, "none")

\* as HandlerBody, forwarding without the contains_signal test of line 119
HandlerBodyUnclassified(update, now, result) ==
    IF IsNone(update.effective_chat)
    THEN Result(<<>>, <<>>, "AttributeError")
    ELSE IF Str(Val(update.effective_chat).id) # Val(SOURCE_GROUP_ID)
    THEN Result(<<>>, <<>>, "none")
    ELSE IF IsNone(update.message)
    THEN Result(<<>>, <<>>, "AttributeError")
    ELSE LET m == Val(update.message)
             message_text == Val(PyOr(PyOr(m.text, m.caption), Some("")))
         IN  forward_signal(message_text, now, result)

\* as HandlerBody, taking the caption before the text at line 117
HandlerBodyCaptionFirst(update, now, result) ==
    IF IsNone(update.effective_chat)
    THEN Result(<<>>, <<>>, "AttributeError")
    ELSE IF Str(Val(update.effective_chat).id) # Val(SOURCE_GROUP_ID)
    THEN Result(<<>>, <<>>, "none")
    ELSE IF IsNone(update.message)
    THEN Result(<<>>, <<>>, "AttributeError")
    ELSE LET m == Val(update.message)
             message_text == Val(PyOr(PyOr(m.caption, m.text), Some("")))
         IN  IF signal(message_text)
             THEN LET f == forward_signal(message_text, now, result)
                      detected == "Trading signal detected: " \o Prefix(message_text, 100)
                  IN  Result(f.sends, <<detected>> \o f.logs, f.exc)
             ELSE Result(<<>>, <<>>, "none")

\* message_handler's try body (lines 114-121)
HandlerBody(update, now, result) ==
    IF IsNone(update.effective_chat)
    THEN Result(<<>>, <<>>, "AttributeError")
    ELSE IF Str(Val(update.effective_chat).id) # Val(SOURCE_GROUP_ID)
    THEN Result(<<>>, <<>>, "none")
    ELSE IF IsNone(update.message)
    THEN Result(<<>>, <<>>, "AttributeError")
    ELSE LET m == Val(update.message)
             message_text == Val(PyOr(PyOr(m.text, m.caption), Some("")))
         IN  IF signal(message_text)
             THEN LET f == forward_signal(message_text, now, result)
                      detected == "Trading signal detected: " \o Prefix(message_text, 100)
                  IN  Result(f.sends, <<detected>> \o f.logs, f.exc)
             ELSE Result(<<>>, <<>>, "none")

\* q holds the log line x
InLogs(x, q) == \E i \in 1..Len(q) : q[i] = x

\* as message_handler, without the try/except of lines 113 and 123-124
message_handler_uncaught(update, now, result) == HandlerBody(update, now, result)

message_handler(update, now, result) ==
    CatchException(HandlerBody(update, now, result), "Error processing message")

\* the text of the startup notification, line 131
BOT_DEPLOYED == "Bot deployed and running!"

\* test_channel_access(application): what it sends and logs when awaiting
\* application.bot.send_message gives result
test_channel_access(result) ==
    LET send == [chat_id |-> Val(TARGET_CHANNEL_ID), text |-> BOT_DEPLOYED]
    IN  CatchException(
            IF result = "ok"
            THEN Result(<<send>>, <<"Bot can access the target channel!">>, "none")
            ELSE Result(<<send>>, <<>>, result),
            "Bot cannot access channel")

\* error_handler(update, context): the log after it ran
error_handler(lg) == lg \cup {"Update caused error"}

(***************************************************************************)
(* Initial state: the module has been imported up to line 33.              *)
(***************************************************************************)
EnvValues(v) == {None, Some(""), Some(v)}

\* the process as the interpreter starts it
Loaded ==
    /\ BOT_TOKEN \in EnvValues("123456:token")
    /\ SOURCE_GROUP_ID \in EnvValues("-1001")
    /\ TARGET_CHANNEL_ID \in EnvValues("@signals")
    /\ helpers_bound \in BOOLEAN
    /\ mpc = "validate"
    /\ exit_code = None
    /\ flask_up = FALSE
    /\ requests = 0
    /\ response = None
    /\ pc = "idle"
    /\ bot_running = FALSE
    /\ application = None
    /\ exit_mode = "fall"
    /\ handshake = {}
    /\ restarts = 0
    /\ fatal_left \in 0..MaxFatal
    /\ cancelled = FALSE
    /\ log = {}
    /\ last = None
    /\ delivered = 0
    /\ outbox = <<>>
    /\ notifications = 0

Init ==
    /\ Loaded
    /\ m_in = None
    /\ m_out = None

(***************************************************************************)
(* Main thread: module level and the __main__ block.                       *)
(***************************************************************************)
\* as Validate, exiting only when none of the three values is set
ValidateAny ==
    /\ mpc = "validate"
    /\ IF ~(Truthy(BOT_TOKEN) \/ Truthy(SOURCE_GROUP_ID) \/ Truthy(TARGET_CHANNEL_ID))
       THEN mpc' = "exited" /\ exit_code' = Some(1)
       ELSE mpc' = "start_flask" /\ UNCHANGED exit_code
    /\ UNCHANGED <<config, flaskvars, supvars, bot_running, relay, matcher>>

\* lines 36-41: exit(1) unless all three values are truthy
Validate ==
    /\ mpc = "validate"
    /\ IF ~All3(BOT_TOKEN, SOURCE_GROUP_ID, TARGET_CHANNEL_ID)
       THEN mpc' = "exited" /\ exit_code' = Some(1)
       ELSE mpc' = "start_flask" /\ UNCHANGED exit_code
    /\ UNCHANGED <<config, flaskvars, supvars, bot_running, relay, matcher>>

\* lines 205-209
StartFlask ==
    /\ mpc = "start_flask"
    /\ flask_up' = TRUE
    /\ mpc' = "start_bot"
    /\ UNCHANGED <<config, exit_code, requests, response, supvars, bot_running, relay, matcher>>

\* lines 212-213: the bot thread starts run_bot(), which enters main()
StartBot ==
    /\ mpc = "start_bot"
    /\ pc = "idle"
    /\ pc' = "build"
    /\ mpc' = "join"
    /\ UNCHANGED <<config, exit_code, flaskvars, application, exit_mode, handshake,
                   restarts, fatal_left, cancelled, log, bot_running, relay, matcher>>

\* lines 215-220: KeyboardInterrupt while the main thread waits in join()
KeyboardInterrupt ==
    /\ mpc = "join"
    /\ pc # "done"
    /\ bot_running' = FALSE
    /\ mpc' = "interrupted"
    /\ UNCHANGED <<config, exit_code, flaskvars, supvars, relay, matcher>>

\* the process ends once the main thread and the non-daemon bot thread have
\* ended; the daemon Flask thread ends with it
ProcessExit ==
    /\ mpc \in {"join", "interrupted"}
    /\ pc = "done"
    /\ exit_code = None
    /\ exit_code' = Some(0)
    /\ flask_up' = FALSE
    /\ mpc' = IF mpc = "join" THEN "end" ELSE mpc
    /\ UNCHANGED <<config, requests, response, supvars, bot_running, relay, matcher>>

(***************************************************************************)
(* Flask thread: the routes /, /health and /restart.                       *)
(***************************************************************************)
\* lines 59-71
home == [route |-> "/", bot_running |-> Some(bot_running)]
\* lines 73-80
health == [route |-> "/health", bot_running |-> Some(bot_running)]
\* lines 82-85
restart == [route |-> "/restart", bot_running |-> None]

\* as Request, with a /restart that stops the relay as its message says
RequestRestarts ==
    /\ flask_up
    /\ requests < MaxRequests
    /\ \E r \in {home, health, restart} :
          /\ response' = Some(r)
          /\ bot_running' = IF r.route = "/restart" THEN FALSE ELSE bot_running
    /\ requests' = requests + 1
    /\ UNCHANGED <<config, mainvars, flask_up, supvars, relay, matcher>>

Request ==
    /\ flask_up
    /\ requests < MaxRequests
    /\ \E r \in {home, health, restart} : response' = Some(r)
    /\ requests' = requests + 1
    /\ UNCHANGED <<config, mainvars, flask_up, supvars, bot_running, relay, matcher>>

(***************************************************************************)
(* Bot thread: main() inside run_bot().  pc names the line the coroutine   *)
(* is at; at an await it is suspended there.                               *)
(***************************************************************************)
threads == <<config, mainvars, flaskvars, relay, matcher>>

NewApplication == Some([initialized |-> FALSE, running |-> FALSE])

\* lines 175-181: an exception raised in the try body reaches the except clauses
TryRaise(kind) ==
    IF kind = "CancelledError"
    THEN /\ pc' = "finally"
         /\ exit_mode' = "break"
         /\ log' = log \cup {"Shutdown requested"}
    ELSE /\ pc' = "backoff"
         /\ exit_mode' = "fall"
         /\ log' = log \cup {"Main loop error"}

\* lines 148-158: a new cycle builds the Application and registers the handlers
BuildOk ==
    /\ pc = "build"
    /\ application' = NewApplication
    /\ handshake' = {}
    /\ exit_mode' = "fall"
    /\ pc' = "initialize"
    /\ UNCHANGED <<restarts, fatal_left, cancelled, log, bot_running, threads>>

\* line 154 raises (the builder rejects the token)
BuildFail ==
    /\ pc = "build"
    /\ fatal_left > 0
    /\ fatal_left' = fatal_left - 1
    /\ application' = None
    /\ handshake' = {}
    /\ TryRaise("TelegramError")
    /\ UNCHANGED <<restarts, cancelled, bot_running, threads>>

\* line 160
InitializeOk ==
    /\ pc = "initialize"
    /\ application' = Some([Val(application) EXCEPT !.initialized = TRUE])
    /\ handshake' = handshake \cup {"initialize"}
    /\ pc' = "start"
    /\ UNCHANGED <<exit_mode, restarts, fatal_left, cancelled, log, bot_running, threads>>

\* as StartOk, with the flag of line 171 set as soon as start() returns
StartOkSetsRunning ==
    /\ pc = "start"
    /\ application' = Some([Val(application) EXCEPT !.running = TRUE])
    /\ handshake' = handshake \cup {"start"}
    /\ bot_running' = TRUE
    /\ pc' = "tasks"
    /\ UNCHANGED <<exit_mode, restarts, fatal_left, cancelled, log, threads>>

\* line 161
StartOk ==
    /\ pc = "start"
    /\ application' = Some([Val(application) EXCEPT !.running = TRUE])
    /\ handshake' = handshake \cup {"start"}
    /\ pc' = "tasks"
    /\ UNCHANGED <<exit_mode, restarts, fatal_left, cancelled, log, bot_running, threads>>

\* lines 164-165: heartbeat(application) and memory_cleaner() are evaluated;
\* an unbound name raises NameError
CreateTasks ==
    /\ pc = "tasks"
    /\ IF helpers_bound
       THEN pc' = "get_me" /\ UNCHANGED <<exit_mode, log>>
       ELSE TryRaise("NameError")
    /\ UNCHANGED <<application, handshake, restarts, fatal_left, cancelled, bot_running, threads>>

\* lines 167-168
GetMeOk ==
    /\ pc = "get_me"
    /\ handshake' = handshake \cup {"get_me"}
    /\ pc' = "set_running"
    /\ UNCHANGED <<application, exit_mode, restarts, fatal_left, cancelled, log,
                   bot_running, threads>>

\* the transport raises in one of the awaits of lines 160, 161, 167
TransportError ==
    /\ pc \in {"initialize", "start", "get_me"}
    /\ fatal_left > 0
    /\ fatal_left' = fatal_left - 1
    /\ TryRaise("TelegramError")
    /\ UNCHANGED <<application, handshake, restarts, cancelled, bot_running, threads>>

\* main() is cancelled while suspended in an await of the try body
CancelInTry ==
    /\ pc \in {"initialize", "start", "get_me", "sleep"}
    /\ cancelled' = TRUE
    /\ TryRaise("CancelledError")
    /\ UNCHANGED <<application, handshake, restarts, fatal_left, bot_running, threads>>

\* line 171
SetRunning ==
    /\ pc = "set_running"
    /\ bot_running' = TRUE
    /\ pc' = "while"
    /\ UNCHANGED <<application, exit_mode, handshake, restarts, fatal_left, cancelled,
                   log, threads>>

\* line 172: the loop test; when it fails the try body ends normally
While ==
    /\ pc = "while"
    /\ pc' = IF bot_running THEN "sleep" ELSE "finally"
    /\ UNCHANGED <<application, exit_mode, handshake, restarts, fatal_left, cancelled,
                   log, bot_running, threads>>

\* line 173: asyncio.sleep(1) returns
Sleep ==
    /\ pc = "sleep"
    /\ pc' = "while"
    /\ UNCHANGED <<application, exit_mode, handshake, restarts, fatal_left, cancelled,
                   log, bot_running, threads>>

\* line 181: asyncio.sleep(10) returns
Backoff ==
    /\ pc = "backoff"
    /\ pc' = "finally"
    /\ UNCHANGED <<application, exit_mode, handshake, restarts, fatal_left, cancelled,
                   log, bot_running, threads>>

\* main() is cancelled during line 181: the CancelledError leaves the except
\* clause and propagates through the finally block
CancelInBackoff ==
    /\ pc = "backoff"
    /\ cancelled' = TRUE
    /\ exit_mode' = "CancelledError"
    /\ pc' = "finally"
    /\ UNCHANGED <<application, handshake, restarts, fatal_left, log, bot_running, threads>>

\* as Finally, without the assignment of line 183
FinallyKeepsFlag ==
    /\ pc = "finally"
    /\ pc' = IF IsNone(application) THEN "loop_end" ELSE "stop"
    /\ UNCHANGED <<application, exit_mode, handshake, restarts, fatal_left, cancelled,
                   log, bot_running, threads>>

\* lines 183-184
Finally ==
    /\ pc = "finally"
    /\ bot_running' = FALSE
    /\ pc' = IF IsNone(application) THEN "loop_end" ELSE "stop"
    /\ UNCHANGED <<application, exit_mode, handshake, restarts, fatal_left, cancelled,
                   log, threads>>

\* as TeardownRaise, without the try/except of lines 185 and 188-189
TeardownRaiseUncaught(kind) ==
    /\ exit_mode' = kind
    /\ pc' = "loop_end"
    /\ UNCHANGED log

\* as TeardownRaise, leaving the restart loop after logging the error
TeardownRaiseEnds(kind) ==
    IF IsException(kind)
    THEN /\ log' = log \cup {"Shutdown error"}
         /\ pc' = "loop_end"
         /\ exit_mode' = "break"
    ELSE /\ exit_mode' = kind
         /\ pc' = "loop_end"
         /\ UNCHANGED log

\* lines 185-189: an exception raised by stop() or shutdown()
TeardownRaise(kind) ==
    IF IsException(kind)
    THEN /\ log' = log \cup {"Shutdown error"}
         /\ pc' = "loop_end"
         /\ UNCHANGED exit_mode
    ELSE /\ exit_mode' = kind
         /\ pc' = "loop_end"
         /\ UNCHANGED log

\* line 186: Application.stop() raises RuntimeError when the application is
\* not running
Stop ==
    /\ pc = "stop"
    /\ IF Val(application).running
       THEN /\ application' = Some([Val(application) EXCEPT !.running = FALSE])
            /\ pc' = "shutdown"
            /\ UNCHANGED <<exit_mode, log>>
       ELSE /\ TeardownRaise("RuntimeError")
            /\ UNCHANGED application
    /\ UNCHANGED <<handshake, restarts, fatal_left, cancelled, bot_running, threads>>

\* line 187
Shutdown ==
    /\ pc = "shutdown"
    /\ application' = Some([Val(application) EXCEPT !.initialized = FALSE])
    /\ pc' = "loop_end"
    /\ UNCHANGED <<exit_mode, handshake, restarts, fatal_left, cancelled, log,
                   bot_running, threads>>

\* the transport raises in stop() or shutdown()
TeardownError ==
    /\ pc \in {"stop", "shutdown"}
    /\ fatal_left > 0
    /\ fatal_left' = fatal_left - 1
    /\ TeardownRaise("TelegramError")
    /\ UNCHANGED <<application, handshake, restarts, cancelled, bot_running, threads>>

\* main() is cancelled during line 186 or 187
CancelInTeardown ==
    /\ pc \in {"stop", "shutdown"}
    /\ cancelled' = TRUE
    /\ TeardownRaise("CancelledError")
    /\ UNCHANGED <<application, handshake, restarts, fatal_left, bot_running, threads>>

\* the end of the finally block: the loop comes round (line 148), or main()
\* is left by the break of line 177 or by the exception in flight
LoopEnd ==
    /\ pc = "loop_end"
    /\ IF exit_mode = "fall"
       THEN /\ pc' = "build"
            /\ restarts' = IF restarts < MaxRestarts THEN restarts + 1 ELSE restarts
       ELSE /\ pc' = "run_bot"
            /\ UNCHANGED restarts
    /\ UNCHANGED <<application, exit_mode, handshake, fatal_left, cancelled, log,
                   bot_running, threads>>

\* lines 193-201: asyncio.run(main()) has returned or raised
RunBotFinally ==
    /\ pc = "run_bot"
    /\ log' = IF IsException(exit_mode) THEN log \cup {"Bot crashed"} ELSE log
    /\ bot_running' = FALSE
    /\ pc' = "done"
    /\ UNCHANGED <<application, exit_mode, handshake, restarts, fatal_left, cancelled,
                   threads>>

(***************************************************************************)
(* The transport delivers an update to message_handler.  The Application   *)
(* dispatches updates while it is running and main() is suspended.         *)
(***************************************************************************)
Dispatching ==
    /\ pc \in {"get_me", "sleep", "backoff", "stop"}
    /\ ~IsNone(application)
    /\ Val(application).running

\* as Deliver, with a handler that gives up the relay when its send failed
DeliverStopsOnError(update, now, result) ==
    /\ Dispatching
    /\ delivered < MaxUpdates
    /\ LET r == message_handler(update, now, result)
       IN  /\ last' = Some([update |-> update, result |-> result,
                            sends |-> r.sends, logs |-> r.logs, exc |-> r.exc])
           /\ delivered' = delivered + 1
           /\ outbox' = outbox \o [i \in 1..Len(r.sends) |-> delivered + 1]
           /\ log' = IF r.exc = "none" THEN log ELSE error_handler(log)
           /\ bot_running' = IF InLogs("Error forwarding signal", r.logs)
                             THEN FALSE ELSE bot_running
    /\ UNCHANGED <<config, mainvars, flaskvars, pc, application, exit_mode, handshake,
                   restarts, fatal_left, cancelled, notifications, matcher>>

\* as Deliver, with the send handed to a task that is not awaited: it goes
\* out after the sends of the updates handled in the meantime
DeliverDeferred(update, now, result) ==
    /\ Dispatching
    /\ delivered < MaxUpdates
    /\ LET r == message_handler(update, now, result)
       IN  /\ last' = Some([update |-> update, result |-> result,
                            sends |-> r.sends, logs |-> r.logs, exc |-> r.exc])
           /\ delivered' = delivered + 1
           /\ \/ outbox' = outbox \o [i \in 1..Len(r.sends) |-> delivered + 1]
              \/ outbox' = [i \in 1..Len(r.sends) |-> delivered + 1] \o outbox
           /\ log' = IF r.exc = "none" THEN log ELSE error_handler(log)
    /\ UNCHANGED <<config, mainvars, flaskvars, pc, application, exit_mode, handshake,
                   restarts, fatal_left, cancelled, bot_running, notifications, matcher>>

\* The Application hands the update to message_handler and awaits it before
\* it takes the next update; an exception the handler lets out goes to
\* error_handler.
Deliver(update, now, result) ==
    /\ Dispatching
    /\ delivered < MaxUpdates
    /\ LET r == message_handler(update, now, result)
       IN  /\ last' = Some([update |-> update, result |-> result,
                            sends |-> r.sends, logs |-> r.logs, exc |-> r.exc])
           /\ delivered' = delivered + 1
           /\ outbox' = outbox \o [i \in 1..Len(r.sends) |-> delivered + 1]
           /\ log' = IF r.exc = "none" THEN log ELSE error_handler(log)
    /\ UNCHANGED <<config, mainvars, flaskvars, pc, application, exit_mode, handshake,
                   restarts, fatal_left, cancelled, bot_running, notifications, matcher>>

\* the updates delivered while the whole system is explored
SomeUpdates ==
    { [effective_chat |-> Some([id |-> 0 - 1001]),
       message |-> Some([text |-> Some("Boom 1000 Index BUY Signal"), caption |-> None])],
      [effective_chat |-> Some([id |-> 0 - 1001]), message |-> None] }

DeliverSome == \E u \in SomeUpdates, now \in Clock, r \in SendResults : Deliver(u, now, r)

DeliverAny == \E u \in Updates, now \in Clock, r \in SendResults : Deliver(u, now, r)

(***************************************************************************)
(* contains_signal applied to the arguments chosen in MatcherInit.         *)
(***************************************************************************)
Classify ==
    /\ ~IsNone(m_in)
    /\ IsNone(m_out)
    /\ m_out' = Some(contains_signal_in(Val(m_in).order, Val(m_in).text))
    /\ UNCHANGED <<config, mainvars, flaskvars, supvars, bot_running, relay, m_in>>

(***************************************************************************)
(* Specifications.                                                         *)
(***************************************************************************)
MainThread == Validate \/ StartFlask \/ StartBot \/ KeyboardInterrupt \/ ProcessExit

\* the steps main() takes by itself
MainLoop ==
    \/ BuildOk \/ InitializeOk \/ StartOk \/ CreateTasks \/ GetMeOk
    \/ SetRunning \/ While \/ Sleep \/ Backoff
    \/ Finally \/ Stop \/ Shutdown \/ LoopEnd

\* the steps of the bot thread
Supervisor == MainLoop \/ RunBotFinally

\* what the transport and a canceller do to main()
Faults ==
    \/ BuildFail \/ TransportError \/ TeardownError
    \/ CancelInTry \/ CancelInBackoff \/ CancelInTeardown

Next == MainThread \/ Request \/ Supervisor \/ Faults \/ DeliverSome

Spec == Init /\ [][Next]_vars

\* the event loop runs main() whenever it can continue, and sleeps end
FairSpec == Spec /\ WF_vars(Supervisor) /\ WF_vars(Validate \/ StartFlask \/ StartBot)

\* the handler under every update, with a transport that raises nothing into
\* main() and no shutdown signal
RelayInit == Init /\ fatal_left = 0

RelayNext == Validate \/ StartFlask \/ StartBot \/ MainLoop \/ DeliverAny

RelaySpec == RelayInit /\ [][RelayNext]_vars

\* contains_signal alone, on every text of MatcherTexts or none, under every
\* order of the patterns
MatcherInit ==
    /\ Loaded
    /\ All3(BOT_TOKEN, SOURCE_GROUP_ID, TARGET_CHANNEL_ID)
    /\ helpers_bound = FALSE
    /\ fatal_left = 0
    /\ m_in \in {Some(a) : a \in MatcherInputs}
    /\ m_out = None

MatcherNext == Classify

MatcherSpec == MatcherInit /\ [][MatcherNext]_vars

(***************************************************************************)
(* Vocabulary of the properties.                                           *)
(***************************************************************************)
Handled == ~IsNone(last)

\* needle occurs in hay, character for character
Contains(hay, needle) ==
    \E i \in 1..(Len(hay) - Len(needle) + 1) : SubSeq(hay, i, i + Len(needle) - 1) = needle

HasChat(u) == ~IsNone(u.effective_chat)
FromSource(u) == HasChat(u) /\ Str(Val(u.effective_chat).id) = Val(SOURCE_GROUP_ID)
FromElsewhere(u) == HasChat(u) /\ Str(Val(u.effective_chat).id) # Val(SOURCE_GROUP_ID)
HasMessage(u) == ~IsNone(u.message)

\* the text of the message: its text, else its caption, else ''
Extracted(u) ==
    LET m == Val(u.message)
    IN  IF Truthy(m.text) THEN Val(m.text)
        ELSE IF Truthy(m.caption) THEN Val(m.caption)
        ELSE ""

InSeq(x, q) == \E i \in 1..Len(q) : q[i] = x

ConfigComplete == All3(BOT_TOKEN, SOURCE_GROUP_ID, TARGET_CHANNEL_ID)

\* a shutdown signal has been delivered: main() was cancelled, or the main
\* thread caught KeyboardInterrupt
Signalled == cancelled \/ mpc = "interrupted"

\* main() has been left
Stopped == pc \in {"run_bot", "done"}

Handshake == {"initialize", "start", "get_me"}

(***************************************************************************)
(* C1.  Restart liveness: once the transport injects no further error and  *)
(* no shutdown signal is delivered, the started supervisor eventually sets *)
(* bot_running (re-enters Running).                                        *)
(***************************************************************************)
C1_RestartLiveness ==
    [](pc # "idle" /\ fatal_left = 0 /\ ~Signalled => <>(bot_running \/ Signalled))

(***************************************************************************)
(* C2.  After a shutdown signal (cancellation of main(), or the main       *)
(* thread's KeyboardInterrupt) the supervisor never enters Starting again: *)
(* no step taken after the signal brings main() back to line 148.          *)
(***************************************************************************)
C2_NoRestartAfterSignal ==
    [][Signalled => ~(pc # "build" /\ pc' = "build")]_vars

(***************************************************************************)
(* C3.  main() is left only after a cancellation: no transport error,      *)
(* initialization failure or teardown failure ends the loop.               *)
(***************************************************************************)
C3_StoppedOnlyOnSignal == Stopped => cancelled

\* the loop has come round after an error in the try body and an error in the
\* teardown, with no cancellation
C3_Witness ==
    /\ ~cancelled
    /\ {"Main loop error", "Shutdown error"} \subseteq log
    /\ restarts >= 1
    /\ pc = "initialize"

(***************************************************************************)
(* C4.  Filtering: an update from a chat other than the source chat causes *)
(* no send, whatever its text or caption.                                  *)
(***************************************************************************)
C4_Filtering ==
    Handled /\ FromElsewhere(Val(last).update) => Val(last).sends = <<>>

\* Scenario C
C4_Witness ==
    /\ Handled
    /\ FromElsewhere(Val(last).update)
    /\ HasMessage(Val(last).update)
    /\ Val(Val(last).update.message).text = Some("NO TRADE ALERT")
    /\ Val(last).sends = <<>>

(***************************************************************************)
(* C5.  At most one send per update; a failed send is not retried.         *)
(***************************************************************************)
C5_AtMostOneSend == Handled => Len(Val(last).sends) <= 1

\* a send was attempted, failed, and was the only one
C5_Witness ==
    /\ Handled
    /\ Val(last).result = "TelegramError"
    /\ Len(Val(last).sends) = 1
    /\ InSeq("Error forwarding signal", Val(last).logs)

(***************************************************************************)
(* C6.  message_handler always returns normally, and an error inside the   *)
(* handler (logged as "Error processing message") goes with zero sends.    *)
(***************************************************************************)
C6_HandlerReturns ==
    Handled =>
        /\ Val(last).exc = "none"
        /\ InSeq("Error processing message", Val(last).logs) => Val(last).sends = <<>>

\* an update of the source chat with no message object was absorbed
C6_Witness ==
    /\ Handled
    /\ FromSource(Val(last).update)
    /\ ~HasMessage(Val(last).update)
    /\ Val(last).exc = "none"
    /\ InSeq("Error processing message", Val(last).logs)

(***************************************************************************)
(* C7.  An update of the source chat whose extracted text matches a rule   *)
(* causes exactly one send, to TARGET_CHANNEL_ID, whose text contains the  *)
(* whole extracted text.                                                   *)
(***************************************************************************)
C7_ForwardVerbatim ==
    (/\ Handled
     /\ FromSource(Val(last).update)
     /\ HasMessage(Val(last).update)
     /\ contains_signal(Extracted(Val(last).update)))
    => /\ Len(Val(last).sends) = 1
       /\ Val(last).sends[1].chat_id = Val(TARGET_CHANNEL_ID)
       /\ Contains(Val(last).sends[1].text, Extracted(Val(last).update))

\* a matching text longer than both log truncations was forwarded whole
C7_Witness ==
    /\ Handled
    /\ FromSource(Val(last).update)
    /\ HasMessage(Val(last).update)
    /\ Val(Val(last).update.message).text = Some(LongText)
    /\ Len(LongText) > 100
    /\ Len(Val(last).sends) = 1
    /\ Contains(Val(last).sends[1].text, LongText)

(***************************************************************************)
(* C8.  An update of the source chat whose extracted text matches no rule  *)
(* (also when it has neither text nor caption) causes no send.             *)
(***************************************************************************)
C8_NoMatchNoSend ==
    (/\ Handled
     /\ FromSource(Val(last).update)
     /\ HasMessage(Val(last).update)
     /\ ~contains_signal(Extracted(Val(last).update)))
    => Val(last).sends = <<>>

\* a message of the source chat with neither text nor caption
C8_Witness ==
    /\ Handled
    /\ FromSource(Val(last).update)
    /\ HasMessage(Val(last).update)
    /\ Val(Val(last).update.message) = [text |-> None, caption |-> None]
    /\ Val(last).sends = <<>>

(***************************************************************************)
(* C9.  bot_running is True only when initialize(), start() and get_me()   *)
(* have completed without error in the current cycle, on an Application    *)
(* that is initialized and running.                                        *)
(***************************************************************************)
C9_RunningAfterHandshake ==
    bot_running =>
        /\ handshake = Handshake
        /\ ~IsNone(application)
        /\ Val(application).initialized
        /\ Val(application).running

\* Running entered in a cycle that follows a failed one
C9_Witness ==
    /\ bot_running
    /\ restarts >= 1
    /\ "Main loop error" \in log
    /\ pc = "sleep"

(***************************************************************************)
(* C10.  With one of the three required values missing the process exits   *)
(* with status 1 at validation: the Flask and bot threads never start, no  *)
(* cycle of main() runs and no update is handled.                          *)
(***************************************************************************)
C10_ConfigFatal ==
    ~ConfigComplete =>
        /\ mpc \in {"validate", "exited"}
        /\ mpc = "exited" => exit_code = Some(1)
        /\ pc = "idle"
        /\ ~flask_up
        /\ restarts = 0
        /\ IsNone(application)
        /\ ~bot_running
        /\ ~Handled

\* exit(1) with only the source identifier missing
C10_Witness ==
    /\ IsNone(SOURCE_GROUP_ID)
    /\ Truthy(BOT_TOKEN)
    /\ Truthy(TARGET_CHANNEL_ID)
    /\ mpc = "exited"
    /\ exit_code = Some(1)
    /\ pc = "idle"


(***************************************************************************)
(* What contains_signal has to answer, said without the matcher: a text    *)
(* holds a signal when it holds one of the literal phrases in some         *)
(* letter-casing, or a line of it holds "Volatility", later "Index" and    *)
(* later "BUY Signal" or "SELL Signal".                                    *)
(***************************************************************************)
Phrases ==
    { "Boom 1000 Index BUY Signal", "Crash 1000 Index BUY Signal",
      "Boom 1000 Index SELL Signal", "Crash 1000 Index SELL Signal",
      "Boom 500 Index BUY Signal", "Boom 500 Index SELL Signal",
      "NO TRADE ALERT" }

\* the positions at which word occurs in s, letters compared folded
Occurrences(s, word) ==
    { i \in 1..Len(s) : i + Len(word) - 1 <= Len(s)
                        /\ Fold(SubSeq(s, i, i + Len(word) - 1)) = Fold(word) }

NoNewline(s) == \A k \in 1..Len(s) : SubSeq(s, k, k) # "\n"

VolatilityLine(t) ==
    \E a \in Occurrences(t, "Volatility"), b \in Occurrences(t, "Index") :
        \E c \in Occurrences(t, "BUY Signal") \cup Occurrences(t, "SELL Signal") :
            /\ a + Len("Volatility") <= b
            /\ b + Len("Index") <= c
            /\ NoNewline(SubSeq(t, a, c))

HoldsSignal(t) ==
    \/ \E ph \in Phrases : Occurrences(t, ph) # {}
    \/ VolatilityLine(t)

\* HoldsSignal over MatcherTexts, computed once
HoldsSignalTable == [t \in MatcherTexts |-> HoldsSignal(t)]

\* C11: contains_signal answers False for an absent or empty text, without
\* an error, and for any other text it answers True exactly when the text
\* holds a signal in some letter-casing; the answer is the same under every
\* order of SIGNAL_PATTERNS.
C11_ContainsSignal ==
    ~IsNone(m_out) =>
        LET a == Val(m_in)
        IN  /\ Val(m_out) \in BOOLEAN
            /\ ~Truthy(a.text) => Val(m_out) = FALSE
            /\ Truthy(a.text) => Val(m_out) = HoldsSignalTable[Val(a.text)]
            /\ Val(m_out) = contains_signal_in(SourceOrder, a.text)

\* a lower-case phrase inside a longer text is found with the patterns
\* listed in another order than the source's
C11_Witness ==
    /\ ~IsNone(m_out)
    /\ Val(m_in).text = Some("fyi: no trade alert today")
    /\ Val(m_in).order # SourceOrder
    /\ Val(m_out) = TRUE

(***************************************************************************)
(* Vocabulary of the restart cycle.                                        *)
(***************************************************************************)
\* the Application of this cycle holds no connection: none was built, or it
\* is neither started nor initialized
TornDown ==
    \/ IsNone(application)
    \/ ~Val(application).running /\ ~Val(application).initialized

\* C12: after a fatal error the supervisor tears the Application down
\* first and waits the backoff afterwards: while main() waits in the backoff
\* sleep of line 181, this cycle's Application has already been stopped and
\* shut down.
C12_TeardownBeforeBackoff == pc = "backoff" => TornDown

OrdinaryTeardownError ==
    \/ TeardownError
    \/ Stop /\ ~Val(application).running

\* C14: teardown is best-effort.  When stop() or shutdown() raises an
\* ordinary error the error is logged and absorbed: main() reaches the end
\* of the finally block with the way it leaves the cycle unchanged, and a
\* cycle that ended in an error caught by the except clause goes on to the
\* next Starting, also when the Application was never initialized.
C14_TeardownBestEffort ==
    [][ /\ OrdinaryTeardownError =>
            /\ pc' = "loop_end"
            /\ exit_mode' = exit_mode
            /\ "Shutdown error" \in log'
        /\ (pc = "loop_end" /\ exit_mode = "fall" /\ pc' # pc) => pc' = "build"
      ]_vars

\* initialize() failed, stop() of the Application that never ran raised,
\* and main() is at the next Starting
C14_Witness ==
    /\ pc = "build"
    /\ restarts >= 1
    /\ ~cancelled
    /\ ~IsNone(application)
    /\ ~Val(application).initialized
    /\ handshake = {}
    /\ "Main loop error" \in log
    /\ "Shutdown error" \in log

\* C15: handling an update, whatever happens to it (no match, a send that
\* fails, an error inside the handler), leaves the supervisor where it is:
\* bot_running, the position of main(), its Application and the way it will
\* leave the cycle are unchanged by the step.
C15_HandlerFrame ==
    [][ delivered' # delivered =>
            UNCHANGED <<bot_running, pc, application, exit_mode, handshake,
                        restarts, cancelled>> ]_vars

\* a send has failed while main() is in Running, and main() is still there
C15_Witness ==
    /\ Handled
    /\ Val(last).result = "TelegramError"
    /\ Len(Val(last).sends) = 1
    /\ InSeq("Error forwarding signal", Val(last).logs)
    /\ bot_running
    /\ pc = "sleep"

(***************************************************************************)
(* Vocabulary of the status surface.                                       *)
(***************************************************************************)
\* the process is past the start of the Flask thread and has not ended
Serving == mpc \in {"start_bot", "join", "interrupted"} /\ exit_code = None

\* C16: the Flask thread does not depend on the supervisor.  As long as the
\* process lives the Flask thread is up, wherever main() is and however
\* many cycles have failed; a request can be served in every such state;
\* and serving a request changes nothing of the supervisor.
C16_HealthIndependent ==
    /\ [](Serving => flask_up)
    /\ []((Serving /\ requests < MaxRequests) => ENABLED Request)
    /\ [][ requests' # requests =>
               UNCHANGED <<bot_running, pc, application, exit_mode, handshake,
                           restarts, fatal_left, cancelled, log>> ]_vars

\* after two failed cycles main() waits in the backoff sleep; a status read
\* has been answered and the next one can be answered now
C16_Witness ==
    /\ pc = "backoff"
    /\ restarts >= 2
    /\ flask_up
    /\ requests >= 1
    /\ ~IsNone(response)
    /\ Val(response).route = "/health"
    /\ ENABLED Request

(***************************************************************************)
(* Vocabulary of the extraction of line 117.  A text or caption is present *)
(* when it is a non-empty string: Python's "or" takes '' as absent.        *)
(***************************************************************************)
\* the payload forward_signal builds around the text t
PayloadOf(t) == TRADING_SIGNAL \o t \o TIME_LABEL

\* the last handled update was forwarded, and with the text t
ForwardedWith(t) ==
    /\ Len(Val(last).sends) = 1
    /\ Contains(Val(last).sends[1].text, PayloadOf(t))

NotForwarded == Val(last).sends = <<>>

\* C17: for an update of the source chat the handler classifies and
\* forwards the message text when there is one, whatever the caption is;
\* the caption only when there is no text; and with neither it works on the
\* empty string and forwards nothing.
C17_TextBeforeCaption ==
    (Handled /\ FromSource(Val(last).update) /\ HasMessage(Val(last).update)) =>
        LET m == Val(Val(last).update.message)
        IN  /\ Truthy(m.text) =>
                IF HoldsSignalTable[Val(m.text)] THEN ForwardedWith(Val(m.text)) ELSE NotForwarded
            /\ (~Truthy(m.text) /\ Truthy(m.caption)) =>
                IF HoldsSignalTable[Val(m.caption)] THEN ForwardedWith(Val(m.caption))
                ELSE NotForwarded
            /\ (~Truthy(m.text) /\ ~Truthy(m.caption)) => NotForwarded

\* a photo with a matching caption and no text is forwarded with its caption
C17_Witness ==
    /\ Handled
    /\ FromSource(Val(last).update)
    /\ HasMessage(Val(last).update)
    /\ IsNone(Val(Val(last).update.message).text)
    /\ Val(Val(last).update.message).caption = Some("NO TRADE ALERT")
    /\ Len(Val(last).sends) = 1
    /\ ForwardedWith("NO TRADE ALERT")

\* C18: updates are handled one at a time in the order the transport
\* delivers them, and the send of an update is over when its handler
\* returns: the sends go out in the order of the updates that caused them,
\* at most one per update, and the update handled last is the last in the
\* outbox exactly when it caused a send.
C18_SendsInDeliveryOrder ==
    /\ \A i \in 1..Len(outbox) : outbox[i] \in 1..delivered
    /\ \A i, j \in 1..Len(outbox) : i < j => outbox[i] < outbox[j]
    /\ Handled =>
        (Len(Val(last).sends) >= 1 <=> (outbox # <<>> /\ outbox[Len(outbox)] = delivered))

\* two matching updates of the source chat have been handled, the second
\* with a failed send: their sends went out in the order of the updates
C18_Witness ==
    /\ delivered = MaxUpdates
    /\ Len(outbox) = MaxUpdates
    /\ outbox[1] = 1
    /\ Val(last).result = "TelegramError"
    /\ Val(Val(last).update.message).text = Some("Volatility 75 Index - SELL Signal")

(***************************************************************************)
(* The phases of the supervisor by the position of main().                 *)
(***************************************************************************)
\* lines 150-168, up to the assignment of line 171
Starting == pc \in {"build", "initialize", "start", "tasks", "get_me", "set_running"}
\* lines 172-173
Running == pc \in {"while", "sleep"}
\* line 181
BackoffWait == pc = "backoff"
\* lines 184-189, after the assignment of line 183
Teardown == pc \in {"stop", "shutdown", "loop_end"}

\* C19: bot_running is True only while main() is in Running: in Starting,
\* in the backoff wait, in teardown and once main() has been left it is
\* False (and so is what /health reports from it).
C19_FlagOnlyInRunning ==
    (Starting \/ BackoffWait \/ Teardown \/ Stopped \/ pc = "idle") => ~bot_running

\* main() was in Running, was cancelled there, and is now stopping the
\* Application with the flag already cleared
C19_Witness ==
    /\ pc = "stop"
    /\ cancelled
    /\ handshake = {"initialize", "start", "get_me"}
    /\ Val(application).running
    /\ exit_mode = "break"
    /\ ~bot_running

\* C20: at most one Application is live at a time: whenever main() is about
\* to build the Application of a new cycle (line 154), the Application of
\* the cycle before has been stopped and shut down.
C20_OneLiveApplication == pc = "build" => TornDown

====
